---------------------------- MODULE Spec2Model ----------------------------
(***************************************************************************)
(* A model of package vtypes (daved/vtypes): Hydrate and its pointer-chain *)
(* resolution (vtypes.go), the Slice accumulator (slice.go) and            *)
(* ConvertCompatible / DefaultValueText.                                   *)
(*                                                                         *)
(* Text is a sequence of one-character strings.  An integer value is a     *)
(* sign and a sequence of decimal digits (most significant first, no       *)
(* leading zero), so that 64-bit values and their range checks are exact.  *)
(* Memory is a heap of cells addressed by their index; NIL is address 0.   *)
(***************************************************************************)
EXTENDS Integers, Sequences, FiniteSets, TLC

VARIABLES
    heap,       \* the memory: a sequence of cells, the address is the index
    val,        \* the destination handle: [levels, kind, p]
    s,          \* the Slice bound to the handle (NoSlice before MakeSlice)
    intSize,    \* strconv.IntSize of the build: 32 or 64
    res,        \* what the last call returned
    pre,        \* the heap and started flag as they were before the last call
    hist,       \* what the calls of this run produced so far
    budget      \* chunks the run may still pass to UnmarshalText / calls left

vars == <<heap, val, s, intSize, res, pre, hist, budget>>

---------------------------------------------------------------------------
(* Bounds of the model. *)

\* The deepest pointer chain a handle has (*T, **T, ***T).
MaxDepth == 3
\* The number of separator-delimited chunks all the UnmarshalText calls of
\* one run hold together.
MaxChunks == 4
\* The number of Hydrate calls of one run on a scalar destination.
MaxHydrates == 2

NIL == 0

---------------------------------------------------------------------------
(* Text and numbers. *)

DigitChars == <<"0", "1", "2", "3", "4", "5", "6", "7", "8", "9">>

IsDigit(c) == \E i \in 1..10 : DigitChars[i] = c

DigitVal(c) == (CHOOSE i \in 1..10 : DigitChars[i] = c) - 1

\* A magnitude with one more decimal digit: n*10 + d, kept without a
\* leading zero.
PushDigit(mag, d) == IF mag = <<0>> THEN <<d>> ELSE Append(mag, d)

RECURSIVE MagLess(_, _)
\* a < b for two magnitudes without leading zeros.
MagLess(a, b) ==
    IF Len(a) # Len(b) THEN Len(a) < Len(b)
    ELSE IF a = <<>> THEN FALSE
    ELSE IF Head(a) # Head(b) THEN Head(a) < Head(b)
    ELSE MagLess(Tail(a), Tail(b))

BitSizes == {8, 16, 32, 64}

\* 2^w, as a magnitude, for the bit sizes strconv is asked for (w) and
\* their cutoffs (w - 1).
Pow2Of(w) ==
    CASE w = 7  -> <<1, 2, 8>>
      [] w = 8  -> <<2, 5, 6>>
      [] w = 15 -> <<3, 2, 7, 6, 8>>
      [] w = 16 -> <<6, 5, 5, 3, 6>>
      [] w = 31 -> <<2, 1, 4, 7, 4, 8, 3, 6, 4, 8>>
      [] w = 32 -> <<4, 2, 9, 4, 9, 6, 7, 2, 9, 6>>
      [] w = 63 -> <<9, 2, 2, 3, 3, 7, 2, 0, 3, 6, 8, 5, 4, 7, 7, 5, 8, 0, 8>>
      [] w = 64 -> <<1, 8, 4, 4, 6, 7, 4, 4, 0, 7, 3, 7, 0, 9, 5, 5, 1, 6, 1, 6>>

RECURSIVE StripZeros(_)
StripZeros(mag) ==
    IF Len(mag) > 1 /\ Head(mag) = 0 THEN StripZeros(Tail(mag)) ELSE mag

RECURSIVE DecFrom(_, _, _)
\* A magnitude > 0 less one, borrowing from its last digit i leftwards.
DecFrom(mag, i, acc) ==
    IF mag[i] > 0 THEN SubSeq(mag, 1, i - 1) \o <<mag[i] - 1>> \o acc
    ELSE DecFrom(mag, i - 1, <<9>> \o acc)

\* mag - 1 for a magnitude > 0.
Dec(mag) == StripZeros(DecFrom(mag, Len(mag), <<>>))

IntVal(neg, mag) == [neg |-> neg, mag |-> mag]

\* A small natural number as an integer value.
Nat2(n) == IntVal(FALSE, IF n < 10 THEN <<n>> ELSE <<n \div 10, n % 10>>)

NoErr == "nil"
ErrSyntax == "strconv.ErrSyntax"
ErrRange == "strconv.ErrRange"
ErrTypeUnsupported == "ErrTypeUnsupported"
ErrNotSlice == "slice: contained value is not a slice or pointer to a slice"
\* The error a hook of the destination returns when it fails.
ErrHook == "the hook's error"
\* The destination itself, returned as the error (case error: return v).
ErrIsDestination == "the destination, an error"
\* A panic under hydrateValue (a nil function called).
Panicked == "panic"

\* One step of strconv.ParseUint's loop: the value with one more digit is a
\* range error when it reaches 2^bitSize.
RECURSIVE ParseUintFrom(_, _, _)
parseUintStep(str, n1, bitSize) ==
    IF ~MagLess(n1, Pow2Of(bitSize))
    THEN [err |-> ErrRange, n |-> Dec(Pow2Of(bitSize))]
    ELSE ParseUintFrom(Tail(str), n1, bitSize)

\* strconv.ParseUint's loop over the digits: a character that is no digit is
\* a syntax error.
ParseUintFrom(str, n, bitSize) ==
    IF str = <<>> THEN [err |-> NoErr, n |-> n]
    ELSE IF ~IsDigit(Head(str)) THEN [err |-> ErrSyntax, n |-> <<0>>]
    ELSE parseUintStep(str, PushDigit(n, DigitVal(Head(str))), bitSize)

\* The bit size strconv parses at: 0 is the build's int size.
BitSizeOf(bitSize, isz) == IF bitSize = 0 THEN isz ELSE bitSize

\* strconv.ParseUint(str, 10, bitSize).
ParseUint(str, bitSize, isz) ==
    IF str = <<>> THEN [err |-> ErrSyntax, n |-> <<0>>]
    ELSE ParseUintFrom(str, <<0>>, BitSizeOf(bitSize, isz))

\* strconv.ParseInt after ParseUint: the check against the cutoff
\* 2^(bitSize-1), then the sign.
parseIntCheck(un, neg, cutoff) ==
    IF un.err = ErrSyntax THEN [err |-> ErrSyntax, v |-> IntVal(FALSE, <<0>>)]
    ELSE IF ~neg /\ ~MagLess(un.n, cutoff)
    THEN [err |-> ErrRange, v |-> IntVal(FALSE, Dec(cutoff))]
    ELSE IF neg /\ MagLess(cutoff, un.n)
    THEN [err |-> ErrRange, v |-> IntVal(TRUE, cutoff)]
    ELSE [err |-> NoErr, v |-> IntVal(neg /\ un.n # <<0>>, un.n)]

\* strconv.ParseInt(str, 10, bitSize): an optional sign, then ParseUint.
ParseInt(str, bitSize, isz) ==
    IF str = <<>> THEN [err |-> ErrSyntax, v |-> IntVal(FALSE, <<0>>)]
    ELSE parseIntCheck(
            ParseUint(IF Head(str) \in {"+", "-"} THEN Tail(str) ELSE str,
                      bitSize, isz),
            Head(str) = "-",
            Pow2Of(BitSizeOf(bitSize, isz) - 1))

\* strconv.Atoi: ParseInt in base 10 at the build's int size.
Atoi(str, isz) == ParseInt(str, 0, isz)

TrueTexts == { <<"1">>, <<"t">>, <<"T">>, <<"T", "R", "U", "E">>,
               <<"t", "r", "u", "e">>, <<"T", "r", "u", "e">> }
FalseTexts == { <<"0">>, <<"f">>, <<"F">>, <<"F", "A", "L", "S", "E">>,
                <<"f", "a", "l", "s", "e">>, <<"F", "a", "l", "s", "e">> }

\* strconv.ParseBool.
ParseBool(str) ==
    IF str \in TrueTexts THEN [err |-> NoErr, v |-> TRUE]
    ELSE IF str \in FalseTexts THEN [err |-> NoErr, v |-> FALSE]
    ELSE [err |-> ErrSyntax, v |-> FALSE]

\* fmt.Sprint of an integer: a minus sign and the decimal digits.
FormatInt(v) ==
    (IF v.neg THEN <<"-">> ELSE <<>>)
        \o [i \in 1..Len(v.mag) |-> DigitChars[v.mag[i] + 1]]

\* fmt.Sprint of a bool.
FormatBool(b) ==
    IF b THEN <<"t", "r", "u", "e">> ELSE <<"f", "a", "l", "s", "e">>

---------------------------------------------------------------------------
(* Types, values and memory. *)

\* The terminal kinds of a destination: the built-in scalars of hydrateValue's
\* type switch that are modelled (the float and duration cases are left
\* out), a struct without hooks, and a slice of int.
IntKinds == {"int", "int8", "int16", "int32", "int64"}
UintKinds == {"uint", "uint8", "uint16", "uint32", "uint64"}
ScalarKinds == {"string", "bool"} \cup IntKinds \cup UintKinds
ElemKind == "int"

\* Plain functions, which ConvertCompatible converts to the callback types.
FuncKinds == {"func(string) error", "func(bool) error"}
CallbackKinds == {"OnSetFunc", "OnSetBoolFunc"}

\* Named types of a caller, by the methods they have: the halves of
\* TextMarshalUnmarshaler (UnmarshalText, MarshalText), of StringSetter
\* (Set, String) and of OnSetter (OnSet, IsBool), and Error.
MethodsOf(kind) ==
    CASE kind \in CallbackKinds         -> {"OnSet", "IsBool"}
      [] kind = "Codec"                 -> {"UnmarshalText", "MarshalText"}
      [] kind = "Setter"                -> {"Set", "String"}
      [] kind = "Callback"              -> {"OnSet", "IsBool"}
      [] kind = "CodecSetter"           ->
            {"UnmarshalText", "MarshalText", "Set", "String"}
      [] kind = "CodecCallback"         ->
            {"UnmarshalText", "MarshalText", "OnSet", "IsBool"}
      [] kind = "SetterCallback"        -> {"Set", "String", "OnSet", "IsBool"}
      [] kind = "CodecSetterCallback"   ->
            {"UnmarshalText", "MarshalText", "Set", "String", "OnSet", "IsBool"}
      [] kind = "DecodeOnly"            -> {"UnmarshalText"}
      [] kind = "EncodeOnly"            -> {"MarshalText"}
      [] kind = "DecodeSetter"          -> {"UnmarshalText", "Set", "String"}
      [] kind = "EncodeCallback"        -> {"MarshalText", "OnSet", "IsBool"}
      [] kind = "DecodeSetterCallback"  ->
            {"UnmarshalText", "Set", "String", "OnSet", "IsBool"}
      [] kind = "SetCallback"           -> {"Set", "OnSet", "IsBool"}
      [] kind = "ErrorCodec"            ->
            {"Error", "UnmarshalText", "MarshalText"}
      [] kind = "ErrorCodecSetterCallback" ->
            {"Error", "UnmarshalText", "MarshalText", "Set", "String",
             "OnSet", "IsBool"}
      [] OTHER                          -> {}

CustomKinds ==
    {"Codec", "Setter", "Callback", "CodecSetter", "CodecCallback",
     "SetterCallback", "CodecSetterCallback", "DecodeOnly", "EncodeOnly",
     "DecodeSetter", "EncodeCallback", "DecodeSetterCallback", "SetCallback",
     "ErrorCodec", "ErrorCodecSetterCallback"}

\* A function, or a value of a type with hooks: whether it is the nil
\* function, whether its hook (its body) fails, and the calls made so far.
HookValue(isnil, fails) == [isnil |-> isnil, fails |-> fails, calls |-> <<>>]

\* The zero value of a kind.
Zero(kind) ==
    CASE kind = "bool"   -> FALSE
      [] kind = "string" -> <<>>
      [] kind = "struct" -> [a |-> 0]
      [] kind = "slice"  -> [isnil |-> TRUE, elems |-> <<>>]
      [] kind \in FuncKinds \cup CallbackKinds -> HookValue(TRUE, FALSE)
      [] kind \in CustomKinds -> HookValue(FALSE, FALSE)
      [] OTHER           -> IntVal(FALSE, <<0>>)

PtrCell(p) == [t |-> "ptr", p |-> p]
ValCell(v) == [t |-> "val", v |-> v]

\* What reflect.New puts in the storage of a type with `levels` pointer
\* levels above `kind`: a nil pointer, or the zero value.
NewCell(levels, kind) ==
    IF levels > 0 THEN PtrCell(NIL) ELSE ValCell(Zero(kind))

\* A reflect.Value of pointer kind: the cell it lives in (addressable), or,
\* for the copy held by the interface it was made from, NIL and its pointer.
ValueAt(loc) == [loc |-> loc, p |-> NIL]
ValueOf(v) == [loc |-> NIL, p |-> v.p]

\* The pointer a reflect.Value of pointer kind holds now.
PtrOf(h, rv) == IF rv.loc = NIL THEN rv.p ELSE h[rv.loc].p

\* What a reflect.Value holds now, as a cell.
CellOf(h, rv) == IF rv.loc = NIL THEN PtrCell(rv.p) ELSE h[rv.loc]

RECURSIVE Deref(_, _, _)
\* The address reached from pointer p by following n more pointers; NIL when
\* a nil pointer is on the way.
Deref(h, p, n) ==
    IF p = NIL \/ n = 0 THEN p ELSE Deref(h, h[p].p, n - 1)

---------------------------------------------------------------------------
(* Hydrate (vtypes.go). *)

RECURSIVE tempValueLoop(_, _, _, _, _)
\* allocIfNil, were new storage given to every pointer under the handle,
\* nil or not.
allocAlways(h, current, lvl, v) ==
    IF current.loc = NIL /\ PtrOf(h, current) # NIL THEN h
    ELSE [Append(h, NewCell(v.levels - lvl, v.kind))
             EXCEPT ![current.loc].p = Len(h) + 1]

\* The memory after tempValue's loop has given a nil pointer new storage.
allocIfNil(h, current, lvl, v) ==
    IF PtrOf(h, current) = NIL
    THEN [Append(h, NewCell(v.levels - lvl, v.kind))
             EXCEPT ![current.loc].p = Len(h) + 1]
    ELSE h

tempValueNext(h1, current, lvl, v, chain1) ==
    IF lvl = v.levels
    THEN [panic |-> FALSE, heap |-> h1, chain |-> chain1]
    ELSE tempValueLoop(h1, ValueAt(PtrOf(h1, current)), lvl + 1, v, chain1)

\* tempValue's loop: follows the pointers from the handle, gives every nil
\* pointer it meets new storage, and collects the pointers in the chain.
\* Setting the handle's own copy (not addressable) panics.
tempValueLoop(h, current, lvl, v, chain) ==
    IF PtrOf(h, current) = NIL /\ current.loc = NIL
    THEN [panic |-> TRUE, heap |-> h, chain |-> chain]
    ELSE tempValueNext(allocIfNil(h, current, lvl, v), current, lvl, v,
                       Append(chain, current))

\* What tempValue returns after its loop: the last pointer of the chain is
\* the prepared value.
tempValueResult(w) ==
    [err |-> NoErr, panic |-> w.panic, heap |-> w.heap, chain |-> w.chain,
     prepared |-> IF w.panic THEN NIL
                  ELSE PtrOf(w.heap, w.chain[Len(w.chain)])]

tempValue(h, v) ==
    IF v.levels = 0
    THEN [err |-> ErrTypeUnsupported, panic |-> FALSE, heap |-> h,
          chain |-> <<>>, prepared |-> NIL]
    ELSE tempValueResult(tempValueLoop(h, ValueOf(v), 1, v, <<>>))

\* An unsigned parse as the value hydrateValue stores.
asUint(r) == [err |-> r.err, v |-> IntVal(FALSE, r.n)]

\* The parse hydrateValue's type switch makes for a pointer to `kind`.
parseKind(kind, raw, isz) ==
    CASE kind = "string" -> [err |-> NoErr, v |-> raw]
      [] kind = "bool"   -> ParseBool(raw)
      [] kind = "int"    -> Atoi(raw, isz)
      [] kind = "int64"  -> ParseInt(raw, 0, isz)
      [] kind = "int8"   -> ParseInt(raw, 8, isz)
      [] kind = "int16"  -> ParseInt(raw, 16, isz)
      [] kind = "int32"  -> ParseInt(raw, 32, isz)
      [] kind = "uint"   -> asUint(ParseUint(raw, 0, isz))
      [] kind = "uint64" -> asUint(ParseUint(raw, 0, isz))
      [] kind = "uint8"  -> asUint(ParseUint(raw, 8, isz))
      [] kind = "uint16" -> asUint(ParseUint(raw, 16, isz))
      [] kind = "uint32" -> asUint(ParseUint(raw, 32, isz))
      [] OTHER           -> [err |-> ErrTypeUnsupported, v |-> Zero(kind)]

\* storeParsed, were the parsed value stored in a copy and not in *v.
storeParsedInCopy(h, prepared, r) == [err |-> r.err, heap |-> h]

\* hydrateValue's assignment *v = parsed, made only when the parse succeeds.
storeParsed(h, prepared, r) ==
    IF r.err # NoErr THEN [err |-> r.err, heap |-> h]
    ELSE [err |-> NoErr, heap |-> [h EXCEPT ![prepared].v = r.v]]

\* The hook hydrateValue's type switch selects after the built-in cases: the
\* first interface, in the order of the cases, that the pointer satisfies.
hookOf(kind) ==
    IF {"UnmarshalText", "MarshalText"} \subseteq MethodsOf(kind)
    THEN "UnmarshalText"
    ELSE IF {"Set", "String"} \subseteq MethodsOf(kind) THEN "Set"
    ELSE IF {"OnSet", "IsBool"} \subseteq MethodsOf(kind) THEN "OnSet"
    ELSE "none"

\* A call of the destination's hook (or function) with arg: the call is
\* made, and its error is returned; calling the nil function panics.
hookInvoked(h, prepared, hook, arg) ==
    IF h[prepared].v.isnil THEN [err |-> Panicked, heap |-> h]
    ELSE [err |-> IF h[prepared].v.fails THEN ErrHook ELSE NoErr,
          heap |-> [h EXCEPT ![prepared].v.calls =
                                Append(@, [hook |-> hook, arg |-> arg])]]

\* v.OnSet(raw): OnSetBoolFunc parses raw as a bool first and calls the
\* function with the bool; the others are called with raw.
onSet(h, prepared, kind, raw) ==
    IF kind # "OnSetBoolFunc" THEN hookInvoked(h, prepared, "OnSet", raw)
    ELSE IF ParseBool(raw).err # NoErr
    THEN [err |-> ParseBool(raw).err, heap |-> h]
    ELSE hookInvoked(h, prepared, "OnSet", ParseBool(raw).v)

\* The cases TextMarshalUnmarshaler, StringSetter and OnSetter.
hookCalled(h, prepared, kind, raw) ==
    IF hookOf(kind) = "OnSet" THEN onSet(h, prepared, kind, raw)
    ELSE hookInvoked(h, prepared, hookOf(kind), raw)

\* hydrateValue on the prepared single pointer: the type switch, in the
\* order of its cases.
hydrateValue(h, prepared, kind, raw, isz) ==
    IF "Error" \in MethodsOf(kind)
    THEN [err |-> ErrIsDestination, heap |-> h]
    ELSE IF kind \in ScalarKinds
    THEN storeParsed(h, prepared, parseKind(kind, raw, isz))
    ELSE IF hookOf(kind) # "none" THEN hookCalled(h, prepared, kind, raw)
    ELSE storeParsed(h, prepared, parseKind(kind, raw, isz))

RECURSIVE assignLoop(_, _, _, _)
\* assignThroughChain's loop, innermost pointer first: what pointerChain[i]
\* points to is set to currentVal, and the pointer becomes currentVal.
assignLoop(h, chain, i, currentVal) ==
    IF i = 0 THEN h
    ELSE assignLoop([h EXCEPT ![PtrOf(h, chain[i])] = CellOf(h, currentVal)],
                    chain, i - 1, chain[i])

assignThroughChain(h, prepared, chain) ==
    IF Len(chain) = 0 THEN h
    ELSE assignLoop(h, chain, Len(chain), ValueAt(prepared))

\* Hydrate after hydrateValue: its error is returned, else the value is
\* assigned back through the chain.
hydrateAssign(r, t) ==
    IF r.err = Panicked
    THEN [outcome |-> "panic", cause |-> NoErr, heap |-> r.heap]
    ELSE IF r.err # NoErr
    THEN [outcome |-> "err", cause |-> r.err, heap |-> r.heap]
    ELSE [outcome |-> "ok", cause |-> NoErr,
          heap |-> assignThroughChain(r.heap, t.prepared, t.chain)]

\* Hydrate after tempValue.
hydrateWith(t, v, raw, isz) ==
    IF t.panic THEN [outcome |-> "panic", cause |-> NoErr, heap |-> t.heap]
    ELSE IF t.err # NoErr
    THEN [outcome |-> "err", cause |-> t.err, heap |-> t.heap]
    ELSE hydrateAssign(hydrateValue(t.heap, t.prepared, v.kind, raw, isz), t)

\* Hydrate: what it returns (the cause is the error under the wrapping
\* Error and HydrateError) and the memory it leaves.
Hydrate(h, v, raw, isz) == hydrateWith(tempValue(h, v), v, raw, isz)

---------------------------------------------------------------------------
(* Slice (slice.go) and ConvertCompatible (vtypes.go). *)

\* The separator MakeSlice configures.
DefaultSeparator == <<",">>

NoSlice ==
    [bound |-> FALSE, ptrValue |-> [levels |-> 0, kind |-> "slice", p |-> NIL],
     started |-> FALSE, SplitEach |-> FALSE, Separator |-> DefaultSeparator,
     NonAccum |-> FALSE]

MakeSlice(ptrValue) ==
    [bound |-> TRUE, ptrValue |-> ptrValue, started |-> FALSE,
     SplitEach |-> FALSE, Separator |-> DefaultSeparator, NonAccum |-> FALSE]

\* The kind ConvertCompatible looks at: that of the handle, after at most
\* one pointer is followed (the Elem of a nil pointer is the invalid Value).
convertKind(v) ==
    IF v.levels = 0 THEN v.kind
    ELSE IF v.p = NIL THEN "invalid"
    ELSE IF v.levels = 1 THEN v.kind
    ELSE "ptr"

\* ConvertCompatible on a function: the function as an OnSetFunc or an
\* OnSetBoolFunc; any other handle is returned as it is.
ConvertCompatibleFunc(v) ==
    IF v.levels = 0 /\ v.kind = "func(string) error"
    THEN [v EXCEPT !.kind = "OnSetFunc"]
    ELSE IF v.levels = 0 /\ v.kind = "func(bool) error"
    THEN [v EXCEPT !.kind = "OnSetBoolFunc"]
    ELSE v

\* ConvertCompatible on a handle that is no function: only a slice is
\* wrapped.  No memory is written.
ConvertCompatible(h, v) ==
    IF convertKind(v) = "slice"
    THEN [wrapped |-> TRUE, slice |-> MakeSlice(v)]
    ELSE [wrapped |-> FALSE, slice |-> NoSlice]

HasPrefix(text, sep) ==
    Len(sep) <= Len(text) /\ SubSeq(text, 1, Len(sep)) = sep

RECURSIVE SplitFrom(_, _, _)
SplitFrom(text, sep, chunk) ==
    IF text = <<>> THEN <<chunk>>
    ELSE IF HasPrefix(text, sep)
    THEN <<chunk>> \o SplitFrom(SubSeq(text, Len(sep) + 1, Len(text)), sep, <<>>)
    ELSE SplitFrom(Tail(text), sep, Append(chunk, Head(text)))

\* bytes.Split: the chunks between the occurrences of sep; with an empty sep,
\* the characters.
Split(text, sep) ==
    IF sep = <<>> THEN [i \in 1..Len(text) |-> <<text[i]>>]
    ELSE SplitFrom(text, sep, <<>>)

RECURSIVE pointerLevelsFrom(_, _, _)
pointerLevelsFrom(h, p, left) ==
    IF p = NIL \/ left = 1 THEN 1
    ELSE 1 + pointerLevelsFrom(h, h[p].p, left - 1)

\* Slice.pointerLevels: the pointers met from ptrValue down to the first nil
\* pointer or the first value that is no pointer.
pointerLevels(h, pv) ==
    IF pv.levels = 0 THEN 0 ELSE pointerLevelsFrom(h, pv.p, pv.levels)

\* Slice.setValue after pointerLevels() = n: follows n-1 pointers from
\* ptrValue and sets what the last one points to.  Elem of a value that is no
\* pointer, and Set on what is not a slice, panic.
setValueAt(h, sl, slice, n) ==
    IF n = 0 \/ n < sl.ptrValue.levels
    THEN [panic |-> TRUE, heap |-> h]
    ELSE [panic |-> FALSE,
          heap |-> [h EXCEPT ![Deref(h, sl.ptrValue.p, n - 1)] = ValCell(slice)]]

\* Slice.setValue.
setValue(h, sl, slice) == setValueAt(h, sl, slice, pointerLevels(h, sl.ptrValue))

RECURSIVE sliceWalk(_, _, _, _)
sliceWalkNext(h1, v, lvl, pv) ==
    IF lvl = pv.levels
    THEN [panic |-> FALSE, heap |-> h1, loc |-> PtrOf(h1, v)]
    ELSE sliceWalk(h1, ValueAt(PtrOf(h1, v)), lvl + 1, pv)

\* UnmarshalText's loop down the pointers: a nil pointer gets new storage
\* (the handle's own copy cannot be set: a panic); yields the place of the
\* value under the pointers.
sliceWalk(h, v, lvl, pv) ==
    IF PtrOf(h, v) = NIL /\ v.loc = NIL
    THEN [panic |-> TRUE, heap |-> h, loc |-> NIL]
    ELSE sliceWalkNext(allocIfNil(h, v, lvl, pv), v, lvl, pv)

\* The separator UnmarshalText splits on.
splitSeparator(sl) == IF ~sl.SplitEach THEN sl.Separator ELSE sl.Separator

\* mustReset, were the slice replaced on every call.
mustResetAlways(sl) == TRUE

\* mustReset, were NonAccum ignored.
mustResetFirstOnly(sl) == ~sl.started

\* Whether UnmarshalText first replaces the slice by an empty one.
mustReset(sl) == ~sl.started \/ sl.NonAccum

\* appended, were the new element put in front.
appendedFront(h, loc, elem) ==
    [isnil |-> FALSE, elems |-> <<elem>> \o h[loc].v.elems]

\* reflect.Append(v, item): the slice as it is now, with one more element.
appended(h, loc, elem) ==
    [isnil |-> FALSE, elems |-> Append(h[loc].v.elems, elem)]

\* A new element hydrated from a chunk: Hydrate on a pointer to a new zero
\* element, in storage of its own.
hydrateItem(chunk, isz) ==
    Hydrate(<<NewCell(0, ElemKind)>>,
            [levels |-> 1, kind |-> ElemKind, p |-> 1], chunk, isz)

RECURSIVE chunkLoop(_, _, _, _, _, _)
chunkStored(sv, sl, loc, chunks, items, elem, isz) ==
    IF sv.panic
    THEN [outcome |-> "panic", cause |-> NoErr, heap |-> sv.heap,
          items |-> items]
    ELSE chunkLoop(sv.heap, sl, loc, Tail(chunks), Append(items, elem), isz)

\* chunkHydrated, were a chunk that fails skipped and the loop continued.
chunkHydratedSkipsBad(h, sl, loc, chunks, items, item, isz) ==
    IF item.outcome # "ok"
    THEN chunkLoop(h, sl, loc, Tail(chunks), items, isz)
    ELSE chunkStored(setValue(h, sl, appended(h, loc, item.heap[1].v)),
                     sl, loc, chunks, items, item.heap[1].v, isz)

\* chunkHydrated, were the slice emptied when a chunk fails.
chunkHydratedClearsOnError(h, sl, loc, chunks, items, item, isz) ==
    IF item.outcome # "ok"
    THEN [outcome |-> item.outcome, cause |-> item.cause,
          heap |-> setValue(h, sl, [isnil |-> FALSE, elems |-> <<>>]).heap,
          items |-> items]
    ELSE chunkStored(setValue(h, sl, appended(h, loc, item.heap[1].v)),
                     sl, loc, chunks, items, item.heap[1].v, isz)

chunkHydrated(h, sl, loc, chunks, items, item, isz) ==
    IF item.outcome # "ok"
    THEN [outcome |-> item.outcome, cause |-> item.cause, heap |-> h,
          items |-> items]
    ELSE chunkStored(setValue(h, sl, appended(h, loc, item.heap[1].v)),
                     sl, loc, chunks, items, item.heap[1].v, isz)

\* UnmarshalText's loop over the chunks: an empty chunk is skipped, a chunk
\* is hydrated into a new element and appended to the slice as it is now;
\* the first chunk that fails ends the call.
chunkLoop(h, sl, loc, chunks, items, isz) ==
    IF chunks = <<>>
    THEN [outcome |-> "ok", cause |-> NoErr, heap |-> h, items |-> items]
    ELSE IF Len(Head(chunks)) = 0
    THEN chunkLoop(h, sl, loc, Tail(chunks), items, isz)
    ELSE chunkHydrated(h, sl, loc, chunks, items,
                       hydrateItem(Head(chunks), isz), isz)

\* What UnmarshalText returns: the outcome, the memory and the started flag
\* it leaves, and the elements it appended (items).
unmarshalResult(r, started) ==
    [outcome |-> r.outcome, cause |-> r.cause, heap |-> r.heap,
     started |-> started, items |-> r.items]

\* UnmarshalText after the reset.
unmarshalChunks(rs, sl, loc, text, isz) ==
    IF rs.panic
    THEN [outcome |-> "panic", cause |-> NoErr, heap |-> rs.heap,
          started |-> sl.started, items |-> <<>>]
    ELSE unmarshalResult(
            chunkLoop(rs.heap, sl, loc, Split(text, splitSeparator(sl)),
                      <<>>, isz),
            TRUE)

\* UnmarshalText after the loop down the pointers: the kind check, then the
\* reset on the first call or on every call of a NonAccum Slice.
unmarshalWalked(w, sl, text, isz) ==
    IF w.panic
    THEN [outcome |-> "panic", cause |-> NoErr, heap |-> w.heap,
          started |-> sl.started, items |-> <<>>]
    ELSE IF sl.ptrValue.kind # "slice"
    THEN [outcome |-> "err", cause |-> ErrNotSlice, heap |-> w.heap,
          started |-> sl.started, items |-> <<>>]
    ELSE unmarshalChunks(
            IF mustReset(sl)
            THEN setValue(w.heap, sl, [isnil |-> FALSE, elems |-> <<>>])
            ELSE [panic |-> FALSE, heap |-> w.heap],
            sl, w.loc, text, isz)

\* UnmarshalText, were the empty text not returned on at once.
UnmarshalTextNoEmptyCheck(h, sl, text, isz) ==
    unmarshalWalked(
        IF sl.ptrValue.levels = 0
        THEN [panic |-> FALSE, heap |-> h, loc |-> sl.ptrValue.p]
        ELSE sliceWalk(h, ValueOf(sl.ptrValue), 1, sl.ptrValue),
        sl, text, isz)

\* Slice.UnmarshalText.
UnmarshalText(h, sl, text, isz) ==
    IF Len(text) = 0
    THEN [outcome |-> "ok", cause |-> NoErr, heap |-> h,
          started |-> sl.started, items |-> <<>>]
    ELSE unmarshalWalked(
            IF sl.ptrValue.levels = 0
            THEN [panic |-> FALSE, heap |-> h, loc |-> sl.ptrValue.p]
            ELSE sliceWalk(h, ValueOf(sl.ptrValue), 1, sl.ptrValue),
            sl, text, isz)

\* Slice.Value.
Value(sl) == sl.ptrValue

\* The name of the slice's element type (int).
ElemTypeName == <<"i", "n", "t">>

\* What the queries' loop `for rv.Kind() == Pointer { rv = rv.Elem() }` ends
\* on: the Elem of a nil pointer is the invalid Value, and the loop ends on it.
queryWalkValid(h, pv) ==
    pv.levels = 0 \/ Deref(h, pv.p, pv.levels - 1) # NIL

\* Slice.ValueTypeName: rv.Type() on the invalid Value panics, as does
\* Type().Elem() on a type that is no slice.
SliceValueTypeName(h, sl) ==
    IF ~queryWalkValid(h, sl.ptrValue) \/ sl.ptrValue.kind # "slice"
    THEN [panic |-> TRUE, name |-> <<>>]
    ELSE [panic |-> FALSE,
          name |-> IF sl.SplitEach
                   THEN ElemTypeName
                          \o <<"(", "m", "u", "l", "t", "i", "s", "e", "p", ":">>
                          \o sl.Separator \o <<")">>
                   ELSE ElemTypeName]

\* Slice.IsBool.
SliceIsBool(h, sl) ==
    IF ~queryWalkValid(h, sl.ptrValue) \/ sl.ptrValue.kind # "slice"
    THEN [panic |-> TRUE, isBool |-> FALSE]
    ELSE [panic |-> FALSE, isBool |-> ElemKind = "bool"]

\* ValueTypeName of a destination: of the *Slice bound to it (the
\* ValueTypeNamer case), else of the handle itself (the default case: the
\* name of the type under the pointers, empty for a slice type).
ValueTypeName(h, v, sl) ==
    IF sl.bound THEN SliceValueTypeName(h, sl)
    ELSE [panic |-> FALSE, name |-> <<>>]

---------------------------------------------------------------------------
(* The destinations a run starts from. *)

\* The memory of a handle with `levels` pointer levels of which the first
\* `alive` are not nil; when all are, the value under them is v0.  A handle
\* that is no pointer holds its value itself (cell 1 is the interface's copy).
BuildHeap(levels, alive, v0) ==
    IF levels = 0 THEN <<ValCell(v0)>>
    ELSE [i \in 1..alive |->
            IF i < alive THEN PtrCell(i + 1)
            ELSE IF alive = levels THEN ValCell(v0)
            ELSE PtrCell(NIL)]

BuildHandle(levels, alive, kind) ==
    [levels |-> levels, kind |-> kind,
     p |-> IF levels = 0 \/ alive > 0 THEN 1 ELSE NIL]

\* The value under the pointers of handle v, when every pointer is set.
Reaches(h, v) == v.levels = 0 \/ Deref(h, v.p, v.levels - 1) # NIL

Terminal(h, v) ==
    IF v.levels = 0 THEN h[v.p].v ELSE h[Deref(h, v.p, v.levels - 1)].v

\* The number of pointers of the chain that are not nil, from the handle.
RECURSIVE AliveFrom(_, _, _)
AliveFrom(h, p, left) ==
    IF left = 0 \/ p = NIL THEN 0 ELSE 1 + AliveFrom(h, h[p].p, left - 1)

Alive(h, v) == AliveFrom(h, v.p, v.levels)

\* The slices a destination holds before it is bound.
PriorSlices == { [isnil |-> TRUE, elems |-> <<>>],
                 [isnil |-> FALSE, elems |-> <<Nat2(9)>>] }

NoRes ==
    [op |-> "none", outcome |-> "ok", cause |-> NoErr, text |-> <<>>,
     items |-> <<>>, wrapped |-> FALSE]

NoHist == [prior |-> <<>>, produced |-> <<>>, allOk |-> TRUE, calls |-> 0]

---------------------------------------------------------------------------
(* The Slice accumulator as a state machine. *)

\* The texts passed to UnmarshalText: n chunks, each empty, a number or no
\* number, joined by commas.
ChunkTokens == { <<>>, <<"1">>, <<"2">>, <<"x">> }

RECURSIVE Join(_)
Join(cs) ==
    IF Len(cs) = 1 THEN cs[1] ELSE cs[1] \o <<",">> \o Join(Tail(cs))

TextsOf(n) == { Join(cs) : cs \in [1..n -> ChunkTokens] }

Init ==
    /\ \E levels \in 0..MaxDepth, alive \in 0..MaxDepth, v0 \in PriorSlices :
          /\ alive <= levels
          /\ levels = 0 => alive = 0
          /\ alive < levels => v0 = Zero("slice")
          /\ heap = BuildHeap(levels, alive, v0)
          /\ val = BuildHandle(levels, alive, "slice")
          /\ hist = [NoHist EXCEPT !.prior = v0.elems]
    /\ s = NoSlice
    /\ intSize = 64
    /\ res = NoRes
    /\ pre = [heap |-> heap, started |-> FALSE]
    /\ budget = MaxChunks

\* s := MakeSlice(val), with the exported fields then set by the caller.
MakeSliceAct ==
    /\ ~s.bound
    /\ res.op = "none"
    /\ \E splitEach \in BOOLEAN, nonAccum \in BOOLEAN :
          s' = [MakeSlice(val) EXCEPT !.SplitEach = splitEach,
                                      !.NonAccum = nonAccum]
    /\ res' = [NoRes EXCEPT !.op = "MakeSlice"]
    /\ pre' = [heap |-> heap, started |-> FALSE]
    /\ UNCHANGED <<heap, val, intSize, hist, budget>>

\* ConvertCompatible(val): the Slice it returns, if it wraps, is the binding.
ConvertCompatibleAct ==
    /\ ~s.bound
    /\ res.op = "none"
    /\ s' = ConvertCompatible(heap, val).slice
    /\ res' = [NoRes EXCEPT !.op = "ConvertCompatible",
                            !.wrapped = ConvertCompatible(heap, val).wrapped]
    /\ pre' = [heap |-> heap, started |-> FALSE]
    /\ UNCHANGED <<heap, val, intSize, hist, budget>>

\* The state after s.UnmarshalText(text) returned r.
unmarshalDone(text, n, r) ==
    /\ heap' = r.heap
    /\ s' = [s EXCEPT !.started = r.started]
    /\ res' = [NoRes EXCEPT !.op = "UnmarshalText", !.outcome = r.outcome,
                            !.cause = r.cause, !.text = text,
                            !.items = r.items]
    /\ pre' = [heap |-> heap, started |-> s.started]
    /\ hist' = [prior |-> hist.prior,
                produced |-> hist.produced \o r.items,
                allOk |-> hist.allOk /\ r.outcome = "ok" /\ Len(text) > 0,
                calls |-> hist.calls + 1]
    /\ budget' = budget - n

\* The queries write nothing: a run is followed up to its first query.
QueryOps == {"ValueTypeName", "IsBool"}

\* s.UnmarshalText(text).  A panic ends the run.
UnmarshalTextAct ==
    /\ s.bound
    /\ res.outcome # "panic"
    /\ res.op \notin QueryOps
    /\ \E n \in 1..budget :
          \E text \in TextsOf(n) :
             unmarshalDone(text, n, UnmarshalText(heap, s, text, intSize))
    /\ UNCHANGED <<val, intSize>>

\* name := ValueTypeName(dest), dest the *Slice when one is bound.
ValueTypeNameAct ==
    /\ res.outcome # "panic"
    /\ res.op \notin QueryOps
    /\ res' = [NoRes EXCEPT
                 !.op = "ValueTypeName",
                 !.outcome = IF ValueTypeName(heap, val, s).panic
                             THEN "panic" ELSE "ok",
                 !.text = ValueTypeName(heap, val, s).name]
    /\ UNCHANGED <<heap, val, s, intSize, pre, hist, budget>>

\* b := s.IsBool().
IsBoolAct ==
    /\ s.bound
    /\ res.outcome # "panic"
    /\ res.op \notin QueryOps
    /\ res' = [NoRes EXCEPT
                 !.op = "IsBool",
                 !.outcome = IF SliceIsBool(heap, s).panic
                             THEN "panic" ELSE "ok",
                 !.wrapped = SliceIsBool(heap, s).isBool]
    /\ UNCHANGED <<heap, val, s, intSize, pre, hist, budget>>

Next ==
    \/ MakeSliceAct
    \/ ConvertCompatibleAct
    \/ UnmarshalTextAct
    \/ ValueTypeNameAct
    \/ IsBoolAct

Spec == Init /\ [][Next]_vars

---------------------------------------------------------------------------
(* Hydrate on a scalar destination as a state machine. *)

\* The kinds of the destinations hydrated: the scalars, and a struct that
\* has no hook.
HydrateKinds ==
    ScalarKinds \cup {"struct"} \cup FuncKinds \cup CallbackKinds
        \cup CustomKinds

\* A value of a kind that is not its zero value.
Sample(kind) ==
    CASE kind = "bool"   -> TRUE
      [] kind = "string" -> <<"a">>
      [] kind = "struct" -> [a |-> 1]
      [] kind \in FuncKinds \cup CallbackKinds \cup CustomKinds ->
            HookValue(FALSE, TRUE)
      [] OTHER           -> Nat2(7)

\* The values a destination holds at the start: its zero value, a value that
\* is not, and for a function or a type with hooks one that succeeds.
StartValues(kind) ==
    {Zero(kind), Sample(kind)}
        \cup (IF kind \in FuncKinds \cup CallbackKinds \cup CustomKinds
              THEN {HookValue(FALSE, FALSE)} ELSE {})

\* The raw texts passed to Hydrate.
RawTexts ==
    { <<"4", "2">>, <<"-", "7">>, <<"x">>, <<"t", "r", "u", "e">>,
      <<"3", "0", "0">>, <<"2", "1", "4", "7", "4", "8", "3", "6", "4", "8">>,
      <<"4", "2", "9", "4", "9", "6", "7", "2", "9", "6">> }

InitHydrate ==
    /\ \E kind \in HydrateKinds, levels \in 0..MaxDepth, alive \in 0..MaxDepth :
          \E v0 \in StartValues(kind) :
          /\ alive <= levels
          /\ levels = 0 => alive = 0
          /\ alive < levels => v0 = Zero(kind)
          /\ heap = BuildHeap(levels, alive, v0)
          /\ val = BuildHandle(levels, alive, kind)
    /\ s = NoSlice
    /\ intSize \in {32, 64}
    /\ res = NoRes
    /\ pre = [heap |-> heap, started |-> FALSE]
    /\ hist = NoHist
    /\ budget = MaxHydrates

\* The state after Hydrate(val, raw) returned r.
hydrateDone(raw, r) ==
    /\ heap' = r.heap
    /\ res' = [NoRes EXCEPT !.op = "Hydrate", !.outcome = r.outcome,
                            !.cause = r.cause, !.text = raw]
    /\ pre' = [heap |-> heap, started |-> FALSE]
    /\ hist' = [hist EXCEPT !.calls = hist.calls + 1]
    /\ budget' = budget - 1

\* Hydrate(val, raw).  A panic ends the run.
HydrateAct ==
    /\ budget > 0
    /\ res.outcome # "panic"
    /\ \E raw \in RawTexts :
          hydrateDone(raw, Hydrate(heap, val, raw, intSize))
    /\ UNCHANGED <<val, s, intSize>>

\* val = ConvertCompatible(val) on a function.
ConvertCompatibleFuncAct ==
    /\ res.op = "none"
    /\ val.kind \in FuncKinds
    /\ val' = ConvertCompatibleFunc(val)
    /\ res' = [NoRes EXCEPT !.op = "ConvertCompatible",
                            !.wrapped = val' # val]
    /\ UNCHANGED <<heap, s, intSize, pre, hist, budget>>

NextHydrate == HydrateAct \/ ConvertCompatibleFuncAct

SpecHydrate == InitHydrate /\ [][NextHydrate]_vars

---------------------------------------------------------------------------
(* DefaultValueText, and the round trip through Hydrate. *)

RECURSIVE JoinWith(_, _)
\* strings.Join.
JoinWith(strs, sep) ==
    IF strs = <<>> THEN <<>>
    ELSE IF Len(strs) = 1 THEN strs[1]
    ELSE strs[1] \o sep \o JoinWith(Tail(strs), sep)

\* fmt.Sprint of a value of a kind.
Sprint(kind, x) ==
    CASE kind = "bool"   -> FormatBool(x)
      [] kind = "string" -> x
      [] kind = "struct" -> <<"{">> \o FormatInt(Nat2(x.a)) \o <<"}">>
      [] kind = "slice"  ->
            <<"[">> \o JoinWith([i \in 1..Len(x.elems) |-> FormatInt(x.elems[i])],
                                <<" ">>) \o <<"]">>
      [] OTHER           -> FormatInt(x)

\* DefaultValueText on a handle without hooks: the empty text when a pointer
\* on the way is nil, else fmt.Sprint of the value under the pointers.
DefaultValueText(h, v) ==
    IF ~Reaches(h, v) THEN <<>> ELSE Sprint(v.kind, Terminal(h, v))

RoundKinds == {"bool"} \cup IntKinds \cup UintKinds

\* The width of an integer kind in the build.
WidthOf(kind, isz) ==
    CASE kind \in {"int8", "uint8"}   -> 8
      [] kind \in {"int16", "uint16"} -> 16
      [] kind \in {"int32", "uint32"} -> 32
      [] kind \in {"int64", "uint64"} -> 64
      [] OTHER                        -> isz

\* The values a round trip starts from: the ends of the kind's range, the
\* values around zero, and the values around the ends of the 32-bit ranges
\* when the kind is wider.
RoundValues(kind, isz) ==
    IF kind = "bool" THEN BOOLEAN
    ELSE IF kind \in IntKinds
    THEN { IntVal(TRUE, Pow2Of(WidthOf(kind, isz) - 1)),
           IntVal(FALSE, Dec(Pow2Of(WidthOf(kind, isz) - 1))),
           IntVal(TRUE, <<1>>), IntVal(FALSE, <<0>>), Nat2(42) }
         \cup (IF WidthOf(kind, isz) > 32
               THEN { IntVal(FALSE, Dec(Pow2Of(31))), IntVal(FALSE, Pow2Of(31)),
                      IntVal(TRUE, Pow2Of(31)), IntVal(TRUE, Pow2Of(32)) }
               ELSE {})
    ELSE { IntVal(FALSE, Dec(Pow2Of(WidthOf(kind, isz)))),
           IntVal(FALSE, <<0>>), Nat2(42) }
         \cup (IF WidthOf(kind, isz) > 32
               THEN { IntVal(FALSE, Dec(Pow2Of(32))), IntVal(FALSE, Pow2Of(32)) }
               ELSE {})

InitRound ==
    /\ intSize \in {32, 64}
    /\ \E kind \in RoundKinds, levels \in 1..MaxDepth :
          \E v \in RoundValues(kind, intSize) :
             /\ heap = BuildHeap(levels, levels, v)
             /\ val = BuildHandle(levels, levels, kind)
    /\ s = NoSlice
    /\ res = NoRes
    /\ pre = [heap |-> heap, started |-> FALSE]
    /\ hist = NoHist
    /\ budget = 0

\* text := DefaultValueText(val).
DefaultValueTextAct ==
    /\ res.op = "none"
    /\ res' = [NoRes EXCEPT !.op = "DefaultValueText",
                            !.text = DefaultValueText(heap, val)]
    /\ UNCHANGED <<heap, val, s, intSize, pre, hist, budget>>

\* The address of the new destination of the round trip.
FreshAddr(h) == Len(h) + 1

\* The state after Hydrate(fresh, text) returned r.
hydrateFreshDone(r) ==
    /\ heap' = r.heap
    /\ res' = [res EXCEPT !.op = "HydrateFresh", !.outcome = r.outcome,
                          !.cause = r.cause]

\* fresh := new(kind); Hydrate(fresh, text) with the text rendered before.
HydrateFreshAct ==
    /\ res.op = "DefaultValueText"
    /\ hydrateFreshDone(
          Hydrate(Append(heap, NewCell(0, val.kind)),
                  [levels |-> 1, kind |-> val.kind, p |-> FreshAddr(heap)],
                  res.text, intSize))
    /\ pre' = [heap |-> heap, started |-> FALSE]
    /\ UNCHANGED <<val, s, intSize, hist, budget>>

NextRound == DefaultValueTextAct \/ HydrateFreshAct

SpecRound == InitRound /\ [][NextRound]_vars

---------------------------------------------------------------------------
(* What the claims speak of. *)

\* The handle is a pointer that is not nil.
Proper == val.levels >= 1 /\ val.p # NIL

\* The elements of the destination slice now, and before the last call.
DestElems == Terminal(heap, val).elems
PreElems == Terminal(pre.heap, val).elems

\* The last call was s.UnmarshalText with a text that is not empty.
CalledNonEmpty == res.op = "UnmarshalText" /\ Len(res.text) > 0

\* A chunk that is not empty and is no integer.
BadChunk(chunk) == Len(chunk) > 0 /\ Atoi(chunk, intSize).err # NoErr

HasBadChunk(chunks) == \E i \in 1..Len(chunks) : BadChunk(chunks[i])

RECURSIVE BeforeBadChunk(_)
\* The integers of the chunks before the first chunk that is no integer.
BeforeBadChunk(chunks) ==
    IF chunks = <<>> \/ BadChunk(Head(chunks)) THEN <<>>
    ELSE IF Len(Head(chunks)) = 0 THEN BeforeBadChunk(Tail(chunks))
    ELSE <<Atoi(Head(chunks), intSize).v>> \o BeforeBadChunk(Tail(chunks))

\* What the slice holds when the loop over the chunks starts.
KeptElems == IF pre.started /\ ~s.NonAccum THEN PreElems ELSE <<>>

---------------------------------------------------------------------------
(* The claims. *)

\* C1: a Slice in append mode (NonAccum = FALSE): after any sequence of
\* successful UnmarshalText calls with non-empty text, the destination slice
\* is the concatenation, in call order, of the elements each call produced,
\* whatever the destination held before the first call.
C1_AppendConcatenates ==
    (s.bound /\ ~s.NonAccum /\ hist.calls > 0 /\ hist.allOk)
        => (Reaches(heap, val) /\ DestElems = hist.produced)

\* Two successful calls, "1,2" then "2", on a destination that held [9].
C1_Witness ==
    /\ s.bound /\ ~s.NonAccum /\ hist.allOk /\ hist.calls = 2
    /\ hist.prior = <<Nat2(9)>>
    /\ res.text = <<"2">>
    /\ Reaches(heap, val)
    /\ DestElems = <<Nat2(1), Nat2(2), Nat2(2)>>

\* C2: a Slice in replace-each-call mode (NonAccum = TRUE): after every
\* successful UnmarshalText call with non-empty text the destination slice
\* holds exactly the elements of that call.
C2_NonAccumReplaces ==
    (s.bound /\ s.NonAccum /\ CalledNonEmpty /\ res.outcome = "ok")
        => (Reaches(heap, val) /\ DestElems = res.items)

\* "1,2" then "2" leaves [2].
C2_Witness ==
    /\ s.bound /\ s.NonAccum /\ CalledNonEmpty /\ res.outcome = "ok"
    /\ hist.calls = 2
    /\ hist.produced = <<Nat2(1), Nat2(2), Nat2(2)>>
    /\ res.text = <<"2">>
    /\ Reaches(heap, val)
    /\ DestElems = <<Nat2(2)>>

\* C3: UnmarshalText with empty text returns no error and changes nothing:
\* not the started flag, not the slice, not a nil pointer of the chain; and
\* the first call with non-empty text, whatever empty calls came before it,
\* still clears the destination.
C3_EmptyTextIsNoOp ==
    /\ (res.op = "UnmarshalText" /\ res.text = <<>>)
          => (res.outcome = "ok" /\ heap = pre.heap /\ s.started = pre.started)
    /\ (CalledNonEmpty /\ res.outcome = "ok" /\ ~pre.started)
          => DestElems = res.items

\* An empty text, after an earlier call, on a three-level handle whose inner
\* pointers are nil.
C3_Witness ==
    /\ res.op = "UnmarshalText" /\ res.text = <<>>
    /\ hist.calls = 2
    /\ val.levels = 3 /\ Alive(heap, val) = 1
    /\ ~s.started

\* C4: Hydrate on a scalar destination behind 1, 2 or 3 pointers, the ones
\* under the handle set or nil: a successful call leaves every pointer set
\* and the value under them equal to the parsed value.
C4_HydrateThroughChain ==
    (res.op = "Hydrate" /\ res.outcome = "ok" /\ Proper
        /\ val.kind \in ScalarKinds)
        => /\ Alive(heap, val) = val.levels
           /\ Terminal(heap, val) = parseKind(val.kind, res.text, intSize).v
           /\ (res.text = <<"4", "2">> /\ val.kind \in IntKinds \cup UintKinds)
                 => Terminal(heap, val) = Nat2(42)
           /\ (res.text = <<"t", "r", "u", "e">> /\ val.kind = "bool")
                 => Terminal(heap, val) = TRUE

\* "42" through three pointers of which only the handle was set.
C4_Witness ==
    /\ res.op = "Hydrate" /\ res.outcome = "ok"
    /\ val.levels = 3 /\ val.kind = "int"
    /\ Alive(pre.heap, val) = 1
    /\ Alive(heap, val) = 3
    /\ res.text = <<"4", "2">>
    /\ Terminal(heap, val) = Nat2(42)

\* C5: a call whose text holds a chunk that is no integer, on a Slice that
\* splits: UnmarshalText returns a parse failure at the first such chunk;
\* the elements of the chunks before it stay appended and no later chunk is
\* converted.
C5_StopsAtFirstBadChunk ==
    (CalledNonEmpty /\ Proper /\ s.SplitEach
        /\ HasBadChunk(Split(res.text, s.Separator)))
        => /\ res.outcome = "err"
           /\ res.cause = ErrSyntax
           /\ DestElems = KeptElems \o BeforeBadChunk(Split(res.text, s.Separator))

\* "1,x,2" leaves [1].
C5_Witness ==
    /\ CalledNonEmpty /\ Proper /\ s.SplitEach
    /\ res.text = <<"1", ",", "x", ",", "2">>
    /\ res.outcome = "err"
    /\ DestElems = <<Nat2(1)>>

\* C6: Hydrate on a destination whose terminal type is a struct without
\* hooks, at every depth and with its inner pointers set or nil, returns the
\* unsupported-type error and leaves the destination as it was.
C6_UnsupportedLeavesDestination ==
    (res.op = "Hydrate" /\ val.kind = "struct" /\ (val.levels = 0 \/ Proper))
        => (res.outcome = "err" /\ res.cause = ErrTypeUnsupported
            /\ heap = pre.heap)

\* C7: for every boolean and integer kind and every value v of it, Hydrate
\* of a new destination of the kind with DefaultValueText of a destination
\* holding v succeeds and leaves the new destination equal to v.
C7_ScalarRoundTrip ==
    res.op = "HydrateFresh"
        => (res.outcome = "ok" /\ heap[Len(heap)].v = Terminal(heap, val))

\* C8: ConvertCompatible on a pointer chain of depth 1, 2 or 3 that ends in
\* a slice returns a Slice whose Value() is the handle, and changes no
\* memory.
C8_ConvertCompatibleWrapsChains ==
    (res.op = "ConvertCompatible" /\ Proper)
        => (res.wrapped /\ s.bound /\ Value(s) = val /\ heap = pre.heap)

\* C9: a Slice bound to a destination whose inner pointers are nil: a
\* successful UnmarshalText with non-empty text leaves every pointer set and
\* the slice under them equal to the converted elements, in input order.
C9_NilLayersAllocatedOnWrite ==
    (CalledNonEmpty /\ res.outcome = "ok" /\ Proper
        /\ Alive(pre.heap, val) < val.levels)
        => /\ Alive(heap, val) = val.levels
           /\ DestElems = res.items
           /\ (s.SplitEach /\ res.text = <<"1", ",", "2", ",", "1">>)
                 => DestElems = <<Nat2(1), Nat2(2), Nat2(1)>>

\* "1,2,1" on a two-level handle whose inner pointer was nil.
C9_Witness ==
    /\ CalledNonEmpty /\ res.outcome = "ok"
    /\ val.levels = 2 /\ Alive(pre.heap, val) = 1 /\ Alive(heap, val) = 2
    /\ s.SplitEach
    /\ res.text = <<"1", ",", "2", ",", "1">>
    /\ DestElems = <<Nat2(1), Nat2(2), Nat2(1)>>

\* C10: with SplitEach = FALSE one successful UnmarshalText call with
\* non-empty text adds exactly one element, converted from the whole text,
\* even when the text holds the separator.
C10_WholeTokenIsOneElement ==
    (CalledNonEmpty /\ res.outcome = "ok" /\ Proper /\ ~s.SplitEach)
        => (Len(res.items) = 1 /\ Len(DestElems) = Len(KeptElems) + 1)

\* C11: the queries ValueTypeName and IsBool return without a panic for every
\* destination, a Slice bound to a destination with a nil pointer in its
\* chain included, in every state UnmarshalText calls lead to.
C11_QueriesNeverPanic ==
    (res.op \in QueryOps /\ (val.levels = 0 \/ Proper))
        => res.outcome = "ok"

\* The argument a callback of the kind is called with for raw.
CallbackArg(kind, raw) ==
    IF kind = "OnSetBoolFunc" THEN ParseBool(raw).v ELSE raw

\* C12: Hydrate on a callback (an OnSetFunc or OnSetBoolFunc as
\* ConvertCompatible returns it: the function value itself) calls it exactly
\* once, with raw or with the bool parsed from raw, and returns nil when the
\* callback does and the callback's error when it fails.
C12_CallbackCalledOnce ==
    (res.op = "Hydrate" /\ val.levels = 0 /\ val.kind \in CallbackKinds
        /\ ~pre.heap[val.p].v.isnil
        /\ (val.kind = "OnSetBoolFunc" => ParseBool(res.text).err = NoErr))
        => /\ Len(heap[val.p].v.calls) = Len(pre.heap[val.p].v.calls) + 1
           /\ heap[val.p].v.calls[Len(heap[val.p].v.calls)]
                 = [hook |-> "OnSet", arg |-> CallbackArg(val.kind, res.text)]
           /\ res.outcome = IF heap[val.p].v.fails THEN "err" ELSE "ok"
           /\ heap[val.p].v.fails => res.cause = ErrHook

\* The strategy the precedence TextCodec, Setter, Callback gives a type; a
\* shape counts only with both its methods.
RankedHook(kind) ==
    IF {"UnmarshalText", "MarshalText"} \subseteq MethodsOf(kind)
    THEN "UnmarshalText"
    ELSE IF {"Set", "String"} \subseteq MethodsOf(kind) THEN "Set"
    ELSE IF {"OnSet", "IsBool"} \subseteq MethodsOf(kind) THEN "OnSet"
    ELSE "none"

\* The calls of its hooks the destination had seen before the last call.
PreCalls ==
    IF Reaches(pre.heap, val) THEN Terminal(pre.heap, val).calls ELSE <<>>

\* After Hydrate on a destination of a type with hooks: exactly the one hook the
\* precedence gives was called, once and with raw; a type with no whole shape
\* had no hook called and is unsupported.
DispatchedByRank ==
    IF RankedHook(val.kind) = "none"
    THEN /\ res.outcome = "err"
         /\ res.cause = ErrTypeUnsupported
         /\ Reaches(heap, val) => Terminal(heap, val).calls = PreCalls
    ELSE /\ res.outcome # "panic"
         /\ Reaches(heap, val)
         /\ Terminal(heap, val).calls
               = Append(PreCalls,
                        [hook |-> RankedHook(val.kind), arg |-> res.text])

\* C13: for every destination of a type with hooks, held by value or behind
\* pointers, Hydrate uses the one strategy of the order TextCodec, Setter,
\* Callback; no lower-ranked hook is called, and half a TextCodec pair is no
\* TextCodec.
C13_DispatchPrecedence ==
    (res.op = "Hydrate" /\ val.kind \in CustomKinds
        /\ (val.levels = 0 \/ Proper))
        => DispatchedByRank

\* C14: started is false until the first UnmarshalText call that succeeds,
\* true from that call on, and never false again; a call that returns an
\* error while started is false leaves it false.
C14_StartedAtFirstSuccess ==
    res.op = "UnmarshalText"
        => /\ pre.started => s.started
           /\ (~pre.started /\ res.outcome = "err") => ~s.started
           /\ (~pre.started /\ CalledNonEmpty /\ res.outcome = "ok")
                 => s.started

\* C15: a call that has no value to write (a Hydrate whose parse fails, an
\* UnmarshalText whose text holds no element) leaves every nil pointer of
\* the destination nil and makes no empty slice in place of a nil one.
C15_AllocationIsWriteTriggered ==
    /\ (res.op = "Hydrate" /\ res.outcome = "err" /\ val.kind \in ScalarKinds
          /\ Proper)
          => (Alive(heap, val) = Alive(pre.heap, val) /\ heap = pre.heap)
    /\ (CalledNonEmpty /\ res.outcome = "ok" /\ res.items = <<>> /\ Proper)
          => /\ Alive(heap, val) = Alive(pre.heap, val)
             /\ (Reaches(pre.heap, val) /\ Terminal(pre.heap, val).isnil)
                   => Terminal(heap, val).isnil

\* The integer kinds of a fixed width.
SizedKinds ==
    {"int8", "int16", "int32", "int64", "uint8", "uint16", "uint32", "uint64"}

\* The digits of a text after its sign.
Unsigned(text) ==
    IF text # <<>> /\ Head(text) \in {"+", "-"} THEN Tail(text) ELSE text

\* A base-10 number: an optional sign and one digit or more.
IsNumber(text) ==
    /\ Unsigned(text) # <<>>
    /\ \A i \in 1..Len(Unsigned(text)) : IsDigit(Unsigned(text)[i])

\* The magnitude of a number.
MagOf(text) ==
    StripZeros([i \in 1..Len(Unsigned(text)) |-> DigitVal(Unsigned(text)[i])])

\* The value of a number.
NumberOf(text) == IntVal(Head(text) = "-" /\ MagOf(text) # <<0>>, MagOf(text))

\* v lies in the range of the kind of width w, whatever the build.
InRangeOf(kind, v) ==
    IF kind \in UintKinds
    THEN ~v.neg /\ MagLess(v.mag, Pow2Of(WidthOf(kind, 64)))
    ELSE IF v.neg THEN ~MagLess(Pow2Of(WidthOf(kind, 64) - 1), v.mag)
    ELSE MagLess(v.mag, Pow2Of(WidthOf(kind, 64) - 1))

\* C16: for every integer kind of a fixed width, on every build, Hydrate
\* accepts exactly the base-10 texts whose value is in the range of the kind
\* and stores that value; any other text fails and leaves the value as it was.
C16_IntegerRangesByWidth ==
    (res.op = "Hydrate" /\ val.kind \in SizedKinds /\ Proper
        /\ Reaches(pre.heap, val))
        => IF IsNumber(res.text) /\ InRangeOf(val.kind, NumberOf(res.text))
           THEN res.outcome = "ok"
                /\ Terminal(heap, val) = NumberOf(res.text)
           ELSE res.outcome = "err"
                /\ Terminal(heap, val) = Terminal(pre.heap, val)

\* C17: in append mode, once started is true, every UnmarshalText call,
\* failed or not, leaves what the slice held before the call as a prefix of
\* what it holds after: nothing is removed, reordered or altered.
C17_AppendKeepsPrefix ==
    (res.op = "UnmarshalText" /\ s.bound /\ ~s.NonAccum /\ pre.started)
        => /\ Reaches(heap, val)
           /\ Len(PreElems) <= Len(DestElems)
           /\ SubSeq(DestElems, 1, Len(PreElems)) = PreElems
           /\ DestElems = PreElems \o res.items

\* "2,x" after "1": the call fails and the slice is [1, 2].
C17_Witness ==
    /\ res.op = "UnmarshalText" /\ s.bound /\ ~s.NonAccum /\ pre.started
    /\ res.text = <<"2", ",", "x">>
    /\ res.outcome = "err"
    /\ PreElems = <<Nat2(1)>>
    /\ DestElems = <<Nat2(1), Nat2(2)>>

\* C18: a successful Hydrate through a chain whose pointers are all set
\* replaces none of them: every pointer refers to the same storage as before
\* the call, no storage is added, and only the value under the pointers
\* changes.
C18_ExistingLayersKept ==
    (res.op = "Hydrate" /\ res.outcome = "ok" /\ Proper
        /\ val.kind \in ScalarKinds /\ Alive(pre.heap, val) = val.levels)
        => /\ Len(heap) = Len(pre.heap)
           /\ \A i \in 1..Len(heap) :
                 pre.heap[i].t = "ptr" => heap[i] = pre.heap[i]
           /\ \A n \in 0..(val.levels - 1) :
                 Deref(heap, val.p, n) = Deref(pre.heap, val.p, n)
           /\ Terminal(heap, val) = parseKind(val.kind, res.text, intSize).v

\* "42" through three set pointers onto a 7: the pointers are as before and
\* the value is 42.
C18_Witness ==
    /\ res.op = "Hydrate" /\ res.outcome = "ok"
    /\ val.levels = 3 /\ val.kind = "int"
    /\ Alive(pre.heap, val) = 3
    /\ Terminal(pre.heap, val) = Nat2(7)
    /\ res.text = <<"4", "2">>
    /\ Terminal(heap, val) = Nat2(42)
    /\ Deref(heap, val.p, 2) = Deref(pre.heap, val.p, 2)

\* C19: for every handle ConvertCompatible wraps in a Slice, a slice held
\* with no pointer included, UnmarshalText with non-empty text ends in
\* success or in a returned error, never in a panic.
C19_WrappedHandleNeverPanics ==
    (CalledNonEmpty /\ s.bound /\ ConvertCompatible(pre.heap, val).wrapped)
        => res.outcome \in {"ok", "err"}

=============================================================================
